---- MODULE Spec2Model ----
(***************************************************************************)
(* Package do (topi-team/do): the Result container and its combinators.    *)
(*                                                                         *)
(* A Result is the struct {val, err, errHandler}.  A chain is modelled as  *)
(* the Result `r` it has produced so far; every step applies one exported  *)
(* function of the package to `r`.  Caller-supplied functions (mapFn,      *)
(* checkFn, wrapFn, okFn, errFn) are drawn from small named tables, and    *)
(* every invocation the package makes of one of them is recorded, with its *)
(* argument and its return, in the `calls` field of `last`.                *)
(*                                                                         *)
(* result.go declares the accessors and constructors; the errHandler field *)
(* and the functions that read or write it (handleErr, Map, MapOrErr,      *)
(* Check, WithErrHandler) are modelled from the revision that declares     *)
(* them.                                                                   *)
(***************************************************************************)
EXTENDS Integers, Sequences, FiniteSets, TLC

\* ---------------------------------------------------------------- bounds
MaxVal == 2
MaxSteps == 5

\* ---------------------------------------------------------------- values
\* The wrapped type T, as small integers; 0 is T's zero value.
Vals == 0..MaxVal
ZeroVal == 0

\* error values are sequences of strings; the nil error is the empty one.
NilErr == << >>
ErrFail == <<"fail">>
ErrInvalid == <<"invalid request">>
BaseErrs == {ErrFail, ErrInvalid}

\* func(error) error values a caller may install; NoHandler is the nil func.
NoHandler == "nil"
Handlers == {"wrap", "tag", "drop"}

\* one invocation of a caller-supplied function: which one, what it was
\* given and what it returned.
Call(kind, fn, argVal, argErr, retVal, retErr) ==
    [kind |-> kind, fn |-> fn, argVal |-> argVal, argErr |-> argErr,
     retVal |-> retVal, retErr |-> retErr]

\* ------------------------------------------------- caller-supplied functions
\* wrapFn: "wrap" is fmt.Errorf("wrapped: %w", err), "tag" a second wrapper,
\* "drop" a handler that returns nil.
ApplyHandler(h, e) ==
    CASE h = "wrap" -> <<"wrapped">> \o e
      [] h = "tag"  -> <<"tagged">> \o e
      [] h = "drop" -> NilErr

\* mapFn of Map: func(T) newT.
MapFns == {"id", "inc"}
ApplyMapFn(f, v) ==
    CASE f = "id"  -> v
      [] f = "inc" -> (v + 1) % (MaxVal + 1)

\* mapFn of MapOrErr: func(T) (newT, error).
MapErrFns == {"okInc", "failNil", "failKeep", "stub"}
ApplyMapErrFn(f, v) ==
    CASE f = "okInc"    -> [val |-> (v + 1) % (MaxVal + 1), err |-> NilErr]
      [] f = "failNil"  -> [val |-> ZeroVal, err |-> ErrFail]
      [] f = "failKeep" -> [val |-> v, err |-> ErrInvalid]
      [] f = "stub"     -> IF v = ZeroVal
                           THEN [val |-> ZeroVal, err |-> ErrFail]
                           ELSE [val |-> v, err |-> NilErr]

\* checkFn of Check: func(T) error.
CheckFns == {"pass", "fail", "match"}
ApplyCheckFn(f, v) ==
    CASE f = "pass"  -> NilErr
      [] f = "fail"  -> ErrFail
      [] f = "match" -> IF v = ZeroVal THEN ErrInvalid ELSE NilErr

\* ------------------------------------------------------------ the package
\* type Result[T any] struct { val T; err error; errHandler func(error) error }
Result(val, err, errHandler) ==
    [val |-> val, err |-> err, errHandler |-> errHandler]

\* IsError with the comparison inverted.
IsErrorInverted(res) == res.err = NilErr

\* func (r Result[T]) IsError() bool
IsError(res) == res.err # NilErr

\* func (r Result[T]) Err() error
Err(res) == res.err

\* func (r Result[T]) Val() T
Val(res) == [out |-> res.val, panicked |-> FALSE]

\* Return that hands back the zero value beside an error.
ReturnZeroOnErr(res) ==
    [val |-> IF res.err # NilErr THEN ZeroVal ELSE res.val, err |-> res.err]

\* func (r Result[T]) Return() (T, error)
Return(res) == [val |-> res.val, err |-> res.err]

\* handleErr without the errHandler call: the error is stored as returned.
handleErrUnwrapped(res, err) == [err |-> err, calls |-> << >>]

\* handleErr without the nil test: the handler is handed a nil error too.
handleErrAlways(res, err) ==
    IF res.errHandler = NoHandler THEN [err |-> err, calls |-> << >>]
    ELSE LET e == ApplyHandler(res.errHandler, err)
         IN  [err |-> e,
              calls |-> << Call("handler", res.errHandler, ZeroVal, err, ZeroVal, e) >>]

\* func (r Result[T]) handleErr(err error) error
handleErr(res, err) ==
    IF err = NilErr THEN [err |-> NilErr, calls |-> << >>]
    ELSE IF res.errHandler = NoHandler THEN [err |-> err, calls |-> << >>]
    ELSE LET e == ApplyHandler(res.errHandler, err)
         IN  [err |-> e,
              calls |-> << Call("handler", res.errHandler, ZeroVal, err, ZeroVal, e) >>]

\* WithReturn that stores the zero value beside a non-nil error.
WithReturnDropsVal(val, err) ==
    Result(IF err # NilErr THEN ZeroVal ELSE val, err, NoHandler)

\* WithReturn that wraps the value and loses the error.
WithReturnDropsErr(val, err) == Result(val, NilErr, NoHandler)

\* func WithReturn[T any](val T, err error) Result[T]
WithReturn(val, err) == Result(val, err, NoHandler)

\* func WithJust[T any](val T) Result[T]
WithJust(val) == Result(val, NilErr, NoHandler)

\* Map that copies the input's value instead of calling mapFn.
MapSkipsFn(input, mapFn) ==
    IF IsError(input)
    THEN [res |-> Result(ZeroVal, input.err, NoHandler), calls |-> << >>]
    ELSE [res |-> Result(input.val, NilErr, input.errHandler), calls |-> << >>]

\* Map without the IsError guard: mapFn runs and the error is lost.
MapUnguarded(input, mapFn) ==
    LET v == ApplyMapFn(mapFn, input.val)
    IN  [res |-> Result(v, NilErr, input.errHandler),
         calls |-> << Call("mapFn", mapFn, input.val, NilErr, v, NilErr) >>]

\* Map that forwards no errHandler, as for a Result without that field.
MapDropsHandler(input, mapFn) ==
    IF IsError(input)
    THEN [res |-> Result(ZeroVal, input.err, NoHandler), calls |-> << >>]
    ELSE LET v == ApplyMapFn(mapFn, input.val)
         IN  [res |-> Result(v, NilErr, NoHandler),
              calls |-> << Call("mapFn", mapFn, input.val, NilErr, v, NilErr) >>]

\* func Map[T, newT any](input Result[T], mapFn func(T) newT) Result[newT]
Map(input, mapFn) ==
    IF IsError(input)
    THEN [res |-> Result(ZeroVal, input.err, NoHandler), calls |-> << >>]
    ELSE LET v == ApplyMapFn(mapFn, input.val)
         IN  [res |-> Result(v, NilErr, input.errHandler),
              calls |-> << Call("mapFn", mapFn, input.val, NilErr, v, NilErr) >>]

\* MapOrErr without the IsError guard: mapFn runs on the zero value too.
MapOrErrUnguarded(input, mapFn) ==
    LET ret == ApplyMapErrFn(mapFn, input.val)
    IN  [res |-> Result(ret.val, IF IsError(input) THEN input.err ELSE ret.err,
                        input.errHandler),
         calls |-> << Call("mapFn", mapFn, input.val, NilErr, ret.val, ret.err) >>]

\* MapOrErr that forwards no errHandler.
MapOrErrDropsHandler(input, mapFn) ==
    IF IsError(input)
    THEN [res |-> Result(ZeroVal, input.err, NoHandler), calls |-> << >>]
    ELSE LET ret == ApplyMapErrFn(mapFn, input.val)
             h   == handleErr(input, ret.err)
         IN  [res |-> Result(ret.val, h.err, NoHandler),
              calls |-> << Call("mapFn", mapFn, input.val, NilErr, ret.val, ret.err) >>
                        \o h.calls]

\* MapOrErr that forwards the errHandler of an error input as well.
MapOrErrKeepsHandler(input, mapFn) ==
    IF IsError(input)
    THEN [res |-> Result(ZeroVal, input.err, input.errHandler), calls |-> << >>]
    ELSE LET ret == ApplyMapErrFn(mapFn, input.val)
             h   == handleErr(input, ret.err)
         IN  [res |-> Result(ret.val, h.err, input.errHandler),
              calls |-> << Call("mapFn", mapFn, input.val, NilErr, ret.val, ret.err) >>
                        \o h.calls]

\* func MapOrErr[T, newT any](input Result[T], mapFn func(T) (newT, error)) Result[newT]
MapOrErr(input, mapFn) ==
    IF IsError(input)
    THEN [res |-> Result(ZeroVal, input.err, NoHandler), calls |-> << >>]
    ELSE LET ret == ApplyMapErrFn(mapFn, input.val)
             h   == handleErr(input, ret.err)
         IN  [res |-> Result(ret.val, h.err, input.errHandler),
              calls |-> << Call("mapFn", mapFn, input.val, NilErr, ret.val, ret.err) >>
                        \o h.calls]

\* Fold with the else branch lost: okFn runs after errFn.
FoldBoth(input) ==
    (IF IsError(input)
     THEN << Call("errFn", "errFn", ZeroVal, input.err, ZeroVal, NilErr) >>
     ELSE << >>)
    \o << Call("okFn", "okFn", input.val, NilErr, ZeroVal, NilErr) >>

\* func Fold[T any](input Result[T], okFn func(T), errFn func(error))
Fold(input) ==
    IF IsError(input)
    THEN << Call("errFn", "errFn", ZeroVal, input.err, ZeroVal, NilErr) >>
    ELSE << Call("okFn", "okFn", input.val, NilErr, ZeroVal, NilErr) >>

\* Check that returns a new Result literal without the errHandler.
CheckRebuilds(input, checkFn) ==
    IF IsError(input)
    THEN [res |-> input, calls |-> << >>]
    ELSE LET e == ApplyCheckFn(checkFn, input.val)
             h == handleErr(input, e)
         IN  [res |-> Result(input.val, h.err, NoHandler),
              calls |-> << Call("checkFn", checkFn, input.val, NilErr, ZeroVal, e) >>
                        \o h.calls]

\* Check without the IsError guard: a later check overwrites the error.
CheckUnguarded(input, checkFn) ==
    LET e == ApplyCheckFn(checkFn, input.val)
    IN  [res |-> [input EXCEPT !.err = e],
         calls |-> << Call("checkFn", checkFn, input.val, NilErr, ZeroVal, e) >>]

\* func Check[T any](input Result[T], checkFn func(T) error) Result[T]
Check(input, checkFn) ==
    IF IsError(input)
    THEN [res |-> input, calls |-> << >>]
    ELSE LET e == ApplyCheckFn(checkFn, input.val)
             h == handleErr(input, e)
         IN  [res |-> [input EXCEPT !.err = h.err],
              calls |-> << Call("checkFn", checkFn, input.val, NilErr, ZeroVal, e) >>
                        \o h.calls]

\* WithErrHandler that hands the error already stored to wrapFn.
WithErrHandlerRetroactive(input, wrapFn) ==
    Result(input.val,
           IF input.err = NilErr THEN NilErr ELSE ApplyHandler(wrapFn, input.err),
           wrapFn)

\* WithErrHandler that installs wrapFn only where no handler is installed.
WithErrHandlerKeepsFirst(input, wrapFn) ==
    Result(input.val, input.err,
           IF input.errHandler = NoHandler THEN wrapFn ELSE input.errHandler)

\* func WithErrHandler[T any](input Result[T], wrapFn func(error) error) Result[T]
WithErrHandler(input, wrapFn) == Result(input.val, input.err, wrapFn)

\* ------------------------------------------------------------ package is
\* type Either[T any] struct { val T; err error }
Either(val, err) == [val |-> val, err |-> err]

\* func Check[T any](v T, err error) Either[T]
EitherCheck(v, err) == Either(v, err)

\* func (e Either[T]) IsError() bool
EitherIsError(ei) == ei.err # NilErr

\* func (e Either[T]) Err() error
EitherErr(ei) == ei.err

\* func (e Either[T]) Val() T
EitherVal(ei) == [out |-> ei.val, panicked |-> FALSE]

\* func (e Either[T]) Fold() (T, error)
EitherFold(ei) == [val |-> ei.val, err |-> ei.err]

\* func Map[T, newT any](e Either[T], fn func(T) newT) Either[newT]
EitherMap(ei, fn) ==
    IF EitherIsError(ei)
    THEN [res |-> Either(ZeroVal, ei.err), calls |-> << >>]
    ELSE LET v == ApplyMapFn(fn, ei.val)
         IN  [res |-> Either(v, NilErr),
              calls |-> << Call("mapFn", fn, ei.val, NilErr, v, NilErr) >>]

\* MapErr without the IsError guard: fn runs and its error replaces the old.
EitherMapErrUnguarded(ei, fn) ==
    LET ret == ApplyMapErrFn(fn, ei.val)
    IN  [res |-> Either(ret.val, ret.err),
         calls |-> << Call("mapFn", fn, ei.val, NilErr, ret.val, ret.err) >>]

\* func MapErr[T, newT any](e Either[T], fn func(T) (newT, error)) Either[newT]
EitherMapErr(ei, fn) ==
    IF EitherIsError(ei)
    THEN [res |-> Either(ZeroVal, ei.err), calls |-> << >>]
    ELSE LET ret == ApplyMapErrFn(fn, ei.val)
         IN  [res |-> Either(ret.val, ret.err),
              calls |-> << Call("mapFn", fn, ei.val, NilErr, ret.val, ret.err) >>]

\* ------------------------------------------------------------------ state
VARIABLES
    r,          \* the Result the chain has produced so far
    last,       \* the last call: its name, function argument, input, the
                \* invocations it made and what an accessor returned
    steps,      \* calls made on this chain since its constructor
    installed,  \* the wrapFn of the chain's latest WithErrHandler, or NoHandler
    replaced,   \* the handler that WithErrHandler call replaced, or NoHandler
    instErr,    \* the error of the Result that WithErrHandler call was given
    hcalls,     \* handler invocations since the latest WithErrHandler
    ferrs,      \* caller functions that returned an error since then
    e,          \* the Either built by the same calls, while the chain is paired
    eCalls,     \* the invocations the last call on the Either made
    paired,     \* the chain is is.Check / do.WithReturn followed by Map and
                \* MapErr / MapOrErr calls only
    nchain,     \* Map / MapOrErr / Check calls made on this chain
    ninv,       \* invocations of their mapFn / checkFn
    lastInv     \* the position in the chain of the last call that invoked one

order == << nchain, ninv, lastInv >>

\* A Result that several goroutines hold and pass to the package at once.
VARIABLES
    mem,        \* the Result variables: the callers' r and, per goroutine, the
                \* parameter `input` (or receiver) of the call it is in
    proc,       \* per goroutine: where it is, the call it makes, what it got
    orig,       \* r as it was constructed
    failed,     \* a Check of r whose checkFn returned an error has returned
    ncalls      \* calls made on r

sharing == << mem, proc, orig, failed, ncalls >>

vars == << r, last, steps, installed, replaced, instErr, hcalls, ferrs, e, eCalls, paired,
           nchain, ninv, lastInv, mem, proc, orig, failed, ncalls >>

NoOut == [val |-> ZeroVal, err |-> NilErr, bool |-> FALSE, panicked |-> FALSE]

Last(op, fn, input, calls, out) ==
    [op |-> op, fn |-> fn, input |-> input, calls |-> calls, out |-> out]

\* the invocations of a handler, and the errors caller functions returned,
\* in a sequence of invocations
HandlerCalls(calls) == Cardinality({i \in DOMAIN calls : calls[i].kind = "handler"})
FnCalls(calls) ==
    Cardinality({i \in DOMAIN calls : calls[i].kind \in {"mapFn", "checkFn"}})
FnErrors(calls) ==
    Cardinality({i \in DOMAIN calls :
        calls[i].kind \in {"mapFn", "checkFn"} /\ calls[i].retErr # NilErr})

\* the chain has no counterpart in package is
Unpaired ==
    /\ e' = EitherCheck(ZeroVal, NilErr)
    /\ eCalls' = << >>
    /\ paired' = FALSE

\* the same call made on the Either, while the chain is paired
EitherStep(out) ==
    IF paired
    THEN /\ e' = out.res
         /\ eCalls' = out.calls
         /\ UNCHANGED paired
    ELSE UNCHANGED << e, eCalls, paired >>

\* goroutines and the variables they use: Caller is r, a goroutine's name is
\* the variable its call has for its parameter
Procs == {"p", "q"}
Caller == "r"
Addrs == {Caller} \cup Procs

NoOutput == [res |-> WithJust(ZeroVal), calls |-> << >>, out |-> NoOut]
IdleProc ==
    [pc |-> "idle", op |-> "", fn |-> "", before |-> WithJust(ZeroVal),
     afterFail |-> FALSE, overlap |-> FALSE, output |-> NoOutput]

\* no Result is shared
SharingIdle ==
    /\ orig = WithJust(ZeroVal)
    /\ mem = [a \in Addrs |-> WithJust(ZeroVal)]
    /\ proc = [p \in Procs |-> IdleProc]
    /\ failed = FALSE
    /\ ncalls = 0

\* a new chain: no call made yet
NewChain ==
    /\ nchain' = 0
    /\ ninv' = 0
    /\ lastInv' = 0

Init ==
    /\ SharingIdle
    /\ nchain = 0
    /\ ninv = 0
    /\ lastInv = 0
    /\ e = EitherCheck(ZeroVal, NilErr)
    /\ eCalls = << >>
    /\ paired = FALSE
    /\ \E v \in Vals :
        /\ r = WithJust(v)
        /\ last = Last("WithJust", "", WithJust(ZeroVal), << >>, [NoOut EXCEPT !.val = v])
    /\ steps = 0
    /\ installed = NoHandler
    /\ replaced = NoHandler
    /\ instErr = NilErr
    /\ hcalls = 0
    /\ ferrs = 0

\* r := do.WithJust(v), the start of a new chain
DoWithJust ==
    \E v \in Vals :
        /\ r' = WithJust(v)
        /\ last' = Last("WithJust", "", r, << >>, [NoOut EXCEPT !.val = v])
        /\ Unpaired
        /\ NewChain
        /\ UNCHANGED sharing
        /\ steps' = 0
        /\ installed' = NoHandler
        /\ replaced' = NoHandler
        /\ instErr' = NilErr
        /\ hcalls' = 0
        /\ ferrs' = 0

\* r := do.WithReturn(v, err), the start of a new chain
DoWithReturn ==
    \E v \in Vals, err \in {NilErr} \cup BaseErrs :
        /\ r' = WithReturn(v, err)
        /\ last' = Last("WithReturn", "", r, << >>,
                        [NoOut EXCEPT !.val = v, !.err = err])
        /\ e' = EitherCheck(v, err)
        /\ eCalls' = << >>
        /\ paired' = TRUE
        /\ NewChain
        /\ UNCHANGED sharing
        /\ steps' = 0
        /\ installed' = NoHandler
        /\ replaced' = NoHandler
        /\ instErr' = NilErr
        /\ hcalls' = 0
        /\ ferrs' = 0

\* a step of the chain that returns a Result and made the invocations `calls`
Step(op, fn, out) ==
    /\ steps < MaxSteps
    /\ r' = out.res
    /\ last' = Last(op, fn, r, out.calls, NoOut)
    /\ steps' = steps + 1
    /\ hcalls' = hcalls + HandlerCalls(out.calls)
    /\ ferrs' = ferrs + FnErrors(out.calls)
    /\ nchain' = nchain + 1
    /\ ninv' = ninv + FnCalls(out.calls)
    /\ lastInv' = IF FnCalls(out.calls) > 0 THEN nchain + 1 ELSE lastInv
    /\ UNCHANGED << installed, replaced, instErr >>
    /\ UNCHANGED sharing

\* r = do.Map(r, mapFn)
DoMap == \E f \in MapFns : Step("Map", f, Map(r, f)) /\ EitherStep(EitherMap(e, f))

\* r = do.MapOrErr(r, mapFn)
DoMapOrErr ==
    \E f \in MapErrFns :
        Step("MapOrErr", f, MapOrErr(r, f)) /\ EitherStep(EitherMapErr(e, f))

\* r = do.Check(r, checkFn)
DoCheck == \E f \in CheckFns : Step("Check", f, Check(r, f)) /\ Unpaired

\* r = do.WithErrHandler(r, wrapFn)
DoWithErrHandler ==
    \E h \in Handlers :
        /\ steps < MaxSteps
        /\ r' = WithErrHandler(r, h)
        /\ last' = Last("WithErrHandler", h, r, << >>, NoOut)
        /\ Unpaired
        /\ UNCHANGED order
        /\ UNCHANGED sharing
        /\ steps' = steps + 1
        /\ installed' = h
        /\ replaced' = r.errHandler
        /\ instErr' = r.err
        /\ hcalls' = 0
        /\ ferrs' = 0

\* do.Fold(r, okFn, errFn)
DoFold ==
    /\ last' = Last("Fold", "", r, Fold(r), NoOut)
    /\ UNCHANGED << r, steps, installed, replaced, instErr, hcalls, ferrs, e, eCalls, paired, order >>
    /\ UNCHANGED sharing

\* r.IsError()
DoIsError ==
    /\ last' = Last("IsError", "", r, << >>, [NoOut EXCEPT !.bool = IsError(r)])
    /\ UNCHANGED << r, steps, installed, replaced, instErr, hcalls, ferrs, e, eCalls, paired, order >>
    /\ UNCHANGED sharing

\* r.Err()
DoErr ==
    /\ last' = Last("Err", "", r, << >>, [NoOut EXCEPT !.err = Err(r)])
    /\ UNCHANGED << r, steps, installed, replaced, instErr, hcalls, ferrs, e, eCalls, paired, order >>
    /\ UNCHANGED sharing

\* r.Val()
DoVal ==
    /\ last' = Last("Val", "", r, << >>,
                    [NoOut EXCEPT !.val = Val(r).out, !.panicked = Val(r).panicked])
    /\ UNCHANGED << r, steps, installed, replaced, instErr, hcalls, ferrs, e, eCalls, paired, order >>
    /\ UNCHANGED sharing

\* r.Return()
DoReturn ==
    /\ last' = Last("Return", "", r, << >>,
                    [NoOut EXCEPT !.val = Return(r).val, !.err = Return(r).err])
    /\ UNCHANGED << r, steps, installed, replaced, instErr, hcalls, ferrs, e, eCalls, paired, order >>
    /\ UNCHANGED sharing

Next ==
    \/ DoWithJust
    \/ DoWithReturn
    \/ DoMap
    \/ DoMapOrErr
    \/ DoCheck
    \/ DoWithErrHandler
    \/ DoFold
    \/ DoIsError
    \/ DoErr
    \/ DoVal
    \/ DoReturn

Spec == Init /\ [][Next]_vars

TypeOK ==
    /\ r.val \in Vals
    /\ steps \in 0..MaxSteps
    /\ installed \in {NoHandler} \cup Handlers
    /\ replaced \in {NoHandler} \cup Handlers
    /\ e.val \in Vals
    /\ paired \in BOOLEAN
    /\ nchain \in 0..MaxSteps
    /\ ninv \in 0..MaxSteps
    /\ lastInv \in 0..MaxSteps

\* ------------------------------------------- a Result shared by goroutines
MaxCalls == 3

chain == << r, last, steps, installed, replaced, instErr, hcalls, ferrs, e, eCalls, paired,
            nchain, ninv, lastInv >>

\* no chain is run
ChainIdle ==
    /\ r = WithJust(ZeroVal)
    /\ last = Last("WithJust", "", WithJust(ZeroVal), << >>, NoOut)
    /\ steps = 0
    /\ installed = NoHandler
    /\ replaced = NoHandler
    /\ instErr = NilErr
    /\ hcalls = 0
    /\ ferrs = 0
    /\ e = EitherCheck(ZeroVal, NilErr)
    /\ eCalls = << >>
    /\ paired = FALSE
    /\ nchain = 0
    /\ ninv = 0
    /\ lastInv = 0

\* A call that stores through its parameter into the caller's variable.
InputAddrCaller(p) == Caller

\* func Check[T any](input Result[T], ...), func (r Result[T]) Val() T, ...:
\* every function takes the Result by value, so the parameter of a call is a
\* variable of its own.
InputAddr(p) == p

\* the functions a caller can pass to an operation
Fns(op) ==
    CASE op = "Map" -> MapFns
      [] op = "MapOrErr" -> MapErrFns
      [] op = "Check" -> CheckFns
      [] op = "WithErrHandler" -> Handlers
      [] OTHER -> {""}

\* what a call returns and the invocations it makes, from the parameter it
\* was given
Apply(op, fn, input) ==
    CASE op = "Map" ->
            [res |-> Map(input, fn).res, calls |-> Map(input, fn).calls, out |-> NoOut]
      [] op = "MapOrErr" ->
            [res |-> MapOrErr(input, fn).res, calls |-> MapOrErr(input, fn).calls,
             out |-> NoOut]
      [] op = "Check" ->
            [res |-> Check(input, fn).res, calls |-> Check(input, fn).calls,
             out |-> NoOut]
      [] op = "WithErrHandler" ->
            [res |-> WithErrHandler(input, fn), calls |-> << >>, out |-> NoOut]
      [] op = "Fold" ->
            [res |-> WithJust(ZeroVal), calls |-> Fold(input), out |-> NoOut]
      [] op = "IsError" ->
            [NoOutput EXCEPT !.out = [NoOut EXCEPT !.bool = IsError(input)]]
      [] op = "Err" ->
            [NoOutput EXCEPT !.out = [NoOut EXCEPT !.err = Err(input)]]
      [] op = "Val" ->
            [NoOutput EXCEPT !.out = [NoOut EXCEPT !.val = Val(input).out,
                                                   !.panicked = Val(input).panicked]]
      [] op = "Return" ->
            [NoOutput EXCEPT !.out = [NoOut EXCEPT !.val = Return(input).val,
                                                   !.err = Return(input).err]]

\* the parameter when the call returns: Check assigns input.err, no other
\* function assigns to its parameter or receiver
InputAfter(op, fn, input) ==
    IF op = "Check" THEN Check(input, fn).res ELSE input

InitShared ==
    /\ ChainIdle
    /\ \E v \in Vals, err \in {NilErr} \cup BaseErrs, h \in {NoHandler} \cup Handlers :
        orig = IF h = NoHandler
               THEN WithReturn(v, err)
               ELSE WithErrHandler(WithReturn(v, err), h)
    /\ mem = [a \in Addrs |-> IF a = Caller THEN orig ELSE WithJust(ZeroVal)]
    /\ proc = [p \in Procs |-> IdleProc]
    /\ failed = FALSE
    /\ ncalls = 0

\* goroutine p calls op with r as the argument: r is copied into the parameter
Enter(p, op, fn) ==
    /\ ncalls < MaxCalls
    /\ proc[p].pc # "called"
    /\ mem' = [mem EXCEPT ![InputAddr(p)] = mem[Caller]]
    /\ proc' = [q \in Procs |->
                 IF q = p
                 THEN [pc |-> "called", op |-> op, fn |-> fn, before |-> mem[Caller],
                       afterFail |-> failed,
                       overlap |-> \E o \in Procs \ {p} : proc[o].pc = "called",
                       output |-> NoOutput]
                 ELSE [proc[q] EXCEPT !.overlap = @ \/ proc[q].pc = "called"]]
    /\ ncalls' = ncalls + 1
    /\ UNCHANGED << orig, failed >>
    /\ UNCHANGED chain

\* do.Map(r, mapFn)
EnterMap(p) == \E f \in Fns("Map") : Enter(p, "Map", f)

\* do.MapOrErr(r, mapFn)
EnterMapOrErr(p) == \E f \in Fns("MapOrErr") : Enter(p, "MapOrErr", f)

\* do.Check(r, checkFn)
EnterCheck(p) == \E f \in Fns("Check") : Enter(p, "Check", f)

\* do.WithErrHandler(r, wrapFn)
EnterWithErrHandler(p) == \E h \in Fns("WithErrHandler") : Enter(p, "WithErrHandler", h)

\* do.Fold(r, okFn, errFn)
EnterFold(p) == Enter(p, "Fold", "")

\* r.IsError()
EnterIsError(p) == Enter(p, "IsError", "")

\* r.Err()
EnterErr(p) == Enter(p, "Err", "")

\* r.Val()
EnterVal(p) == Enter(p, "Val", "")

\* r.Return()
EnterReturn(p) == Enter(p, "Return", "")

\* the body of the call of goroutine p runs on its parameter and returns
Leave(p) ==
    /\ proc[p].pc = "called"
    /\ LET input == mem[InputAddr(p)]
           output == Apply(proc[p].op, proc[p].fn, input)
       IN  /\ mem' = [mem EXCEPT ![InputAddr(p)] =
                        InputAfter(proc[p].op, proc[p].fn, input)]
           /\ proc' = [proc EXCEPT ![p].pc = "returned", ![p].output = output]
           /\ failed' = (failed \/ (proc[p].op = "Check" /\ FnErrors(output.calls) > 0))
    /\ UNCHANGED << orig, ncalls >>
    /\ UNCHANGED chain

NextShared ==
    \E p \in Procs :
        \/ EnterMap(p)
        \/ EnterMapOrErr(p)
        \/ EnterCheck(p)
        \/ EnterWithErrHandler(p)
        \/ EnterFold(p)
        \/ EnterIsError(p)
        \/ EnterErr(p)
        \/ EnterVal(p)
        \/ EnterReturn(p)
        \/ Leave(p)

SpecShared == InitShared /\ [][NextShared]_vars

TypeOKShared ==
    /\ mem \in [Addrs -> [val : Vals, err : Seq(STRING), errHandler : {NoHandler} \cup Handlers]]
    /\ \A p \in Procs : proc[p].pc \in {"idle", "called", "returned"}
    /\ failed \in BOOLEAN
    /\ ncalls \in 0..MaxCalls

\* ----------------------------------------------------------------- claims
ChainOps == {"Map", "MapOrErr", "Check"}
Combinators == ChainOps \cup {"WithErrHandler", "Fold"}
FallibleOps == {"MapOrErr", "Check"}

\* the error the caller function of the last Check / MapOrErr returns on the
\* value of that call's input
FnErr ==
    IF last.op = "Check" THEN ApplyCheckFn(last.fn, last.input.val)
    ELSE ApplyMapErrFn(last.fn, last.input.val).err

\* the last call was a Check / MapOrErr on an Ok input whose function failed
FailingStep ==
    /\ last.op \in FallibleOps
    /\ ~IsError(last.input)
    /\ FnErr # NilErr

\* C1: Map, MapOrErr and Check on an error Result invoke no caller function
\* and return an error Result with the same error.
C1_ShortCircuit ==
    (last.op \in ChainOps /\ IsError(last.input))
        => /\ last.calls = << >>
           /\ IsError(r)
           /\ Err(r) = Err(last.input)

C1_Witness ==
    /\ last.op = "MapOrErr"
    /\ last.fn = "failKeep"
    /\ IsError(last.input)
    /\ last.input.errHandler # NoHandler

\* C2: Val() panics exactly when the Result is an error, and returns the
\* wrapped value otherwise.
C2_ValPanicsIffError ==
    last.op = "Val"
        => /\ last.out.panicked <=> IsError(last.input)
           /\ ~IsError(last.input) => last.out.val = last.input.val

\* C3: a non-nil error returned by the function of Check / MapOrErr on an Ok
\* input leaves the returned Result an error, whatever handler is installed.
C3_ErrorNeverSwallowed ==
    FailingStep => IsError(r)

\* C4: in a chain of Map / MapOrErr / Check calls after WithErrHandler(h),
\* h is invoked at most once.
C4_HandlerAtMostOnce ==
    installed # NoHandler => hcalls <= 1

\* C5: when the function of Check / MapOrErr on an Ok input with handler h
\* returns the error e, the call invokes the function and then h, once, with
\* e, and the returned Result's error is what h returned, h(e).
C5_HandlerTransforms ==
    (FailingStep /\ last.input.errHandler # NoHandler)
        => /\ Len(last.calls) = 2
           /\ last.calls[1].kind \in {"mapFn", "checkFn"}
           /\ last.calls[1].fn = last.fn
           /\ last.calls[1].retErr = FnErr
           /\ last.calls[2] = Call("handler", last.input.errHandler, ZeroVal, FnErr,
                                   ZeroVal, ApplyHandler(last.input.errHandler, FnErr))
           /\ Err(r) = ApplyHandler(last.input.errHandler, FnErr)

C5_Witness ==
    /\ FailingStep
    /\ last.op = "MapOrErr"
    /\ last.input.errHandler = "wrap"
    /\ Err(r) = <<"wrapped", "fail">>

\* C6: from an error Result, every further Map, MapOrErr, Check and
\* WithErrHandler call returns an error Result with the same error and
\* invokes no caller function and no handler.
C6_ErrAbsorbing ==
    [][ (IsError(r) /\ last'.op \in ChainOps \cup {"WithErrHandler"})
            => /\ IsError(r')
               /\ Err(r') = Err(r)
               /\ last'.calls = << >> ]_vars

C6_Witness ==
    /\ steps >= 4
    /\ last.op = "Check"
    /\ last.fn = "fail"
    /\ IsError(last.input)
    /\ last.input.errHandler = "tag"
    /\ Err(r) = <<"wrapped", "fail">>

\* C7: Fold makes exactly one invocation: errFn with the error of an error
\* Result, okFn with the value of an Ok one.
C7_FoldExclusive ==
    last.op = "Fold"
        => /\ Len(last.calls) = 1
           /\ IF IsError(last.input)
              THEN last.calls[1].kind = "errFn" /\ last.calls[1].argErr = Err(last.input)
              ELSE last.calls[1].kind = "okFn" /\ last.calls[1].argVal = last.input.val

C7_Witness ==
    /\ last.op = "Fold"
    /\ IsError(last.input)
    /\ last.input.val # ZeroVal

\* C8 as stated: the Result Map / MapOrErr return carries the handler of the
\* input, for an error input as for an Ok one.
C8_HandlerForwardedAlways ==
    last.op \in {"Map", "MapOrErr"} => r.errHandler = last.input.errHandler

\* C8 amended: on an Ok input the returned Result carries the input's
\* handler; on an error input it carries the same error and no handler.
C8_HandlerForwardedOnOk ==
    last.op \in {"Map", "MapOrErr"}
        => IF IsError(last.input)
           THEN r.errHandler = NoHandler /\ Err(r) = Err(last.input)
           ELSE r.errHandler = last.input.errHandler

C8_Witness ==
    /\ last.op = "MapOrErr"
    /\ IsError(last.input)
    /\ last.input.errHandler = "wrap"

\* C9: after WithErrHandler(r, h) on an Ok Result, while every function of
\* the Map / MapOrErr / Check calls that follow succeeds, h is not invoked
\* and stays installed; the first call whose function then returns an error
\* e invokes h once and returns a Result whose error is h(e).
C9_HandlerCarried ==
    installed # NoHandler
        => /\ (ferrs = 0 /\ ~IsError(r))
                => hcalls = 0 /\ r.errHandler = installed
           /\ (ferrs = 1 /\ FailingStep)
                => hcalls = 1 /\ Err(r) = ApplyHandler(installed, FnErr)

C9_Witness ==
    /\ installed = "wrap"
    /\ steps >= 4
    /\ ferrs = 1
    /\ FailingStep
    /\ last.op = "Check"
    /\ Err(r) = <<"wrapped", "fail">>

\* C10: WithErrHandler(r, h) returns r's value and error with h installed
\* and invokes no handler; every handler invocation of a later call is of
\* the handler installed last, never of one it replaced.
C10_HandlerReplaced ==
    /\ last.op = "WithErrHandler"
        => /\ r.val = last.input.val
           /\ Err(r) = Err(last.input)
           /\ r.errHandler = last.fn
           /\ last.calls = << >>
    /\ \A i \in DOMAIN last.calls :
        last.calls[i].kind = "handler" => last.calls[i].fn = installed

C10_Witness ==
    /\ replaced = "wrap"
    /\ installed = "tag"
    /\ FailingStep
    /\ HandlerCalls(last.calls) = 1
    /\ Err(r) = <<"tagged", "fail">>

\* C11: WithErrHandler on a Result that is already an error leaves the error
\* as it is and invokes no handler, and no Map / MapOrErr / Check call that
\* follows invokes the handler or changes the error.
C11_NotRetroactive ==
    /\ (last.op = "WithErrHandler" /\ IsError(last.input))
            => Err(r) = Err(last.input) /\ last.calls = << >>
    /\ instErr # NilErr
            => IsError(r) /\ Err(r) = instErr /\ hcalls = 0

C11_Witness ==
    /\ instErr = ErrInvalid
    /\ installed = "wrap"
    /\ steps >= 3
    /\ last.op = "MapOrErr"
    /\ last.fn = "failNil"

\* C12: a handler is invoked only by a Check / MapOrErr call on an Ok input
\* whose function returned an error, and then once: never by Map, Fold,
\* WithErrHandler or an accessor, nor when the function returned nil or the
\* input was an error.
C12_HandlerOnlyOnNewError ==
    /\ HandlerCalls(last.calls) <= 1
    /\ HandlerCalls(last.calls) = 1 => FailingStep

C12_Witness ==
    /\ last.op = "Check"
    /\ last.fn = "pass"
    /\ ~IsError(last.input)
    /\ last.input.errHandler = "wrap"
    /\ last.calls # << >>

\* C13: WithJust(v) is Ok with value v and a nil error; WithReturn(v, err) is
\* Ok with value v exactly when err is nil and is otherwise an error Result
\* whose error is err; neither installs a handler.
C13_Construction ==
    /\ last.op = "WithJust"
        => /\ ~IsError(r)
           /\ Val(r) = [out |-> last.out.val, panicked |-> FALSE]
           /\ Err(r) = NilErr
           /\ r.errHandler = NoHandler
    /\ last.op = "WithReturn"
        => /\ IsError(r) <=> last.out.err # NilErr
           /\ Err(r) = last.out.err
           /\ ~IsError(r) => Val(r) = [out |-> last.out.val, panicked |-> FALSE]
           /\ r.errHandler = NoHandler

C13_Witness ==
    /\ last.op = "WithReturn"
    /\ last.out.err = ErrFail
    /\ last.out.val # ZeroVal
    /\ IsError(last.input)

\* C14: Map on an Ok Result with value v invokes mapFn once, with v, and
\* returns an Ok Result whose value is mapFn(v); with the identity the value
\* is v again.
C14_MapOnSuccess ==
    (last.op = "Map" /\ ~IsError(last.input))
        => /\ last.calls = << Call("mapFn", last.fn, last.input.val, NilErr,
                                   ApplyMapFn(last.fn, last.input.val), NilErr) >>
           /\ ~IsError(r)
           /\ Val(r).out = ApplyMapFn(last.fn, last.input.val)
           /\ last.fn = "id" => Val(r).out = last.input.val

C14_Witness ==
    /\ last.op = "Map"
    /\ last.fn = "inc"
    /\ ~IsError(last.input)
    /\ last.input.val = 1
    /\ r.val = 2

\* C15: Check returns its input, with the same value, error and handler,
\* when the input is an error (checkFn is not called) and when the input is
\* Ok and checkFn, called once with the value, returns nil.
C15_CheckReturnsInput ==
    /\ (last.op = "Check" /\ IsError(last.input))
            => r = last.input /\ last.calls = << >>
    /\ (last.op = "Check" /\ ~IsError(last.input) /\ FnErr = NilErr)
            => /\ r = last.input
               /\ last.calls = << Call("checkFn", last.fn, last.input.val, NilErr,
                                       ZeroVal, NilErr) >>

C15_Witness ==
    /\ last.op = "Check"
    /\ last.fn = "match"
    /\ ~IsError(last.input)
    /\ last.input.errHandler = "tag"
    /\ ~IsError(r)

\* C16: with no handler installed the error of the Result a failing
\* MapOrErr / Check returns is the error its function returned; a Map that
\* follows does not invoke its function and returns that same error.
C16_ErrorStoredAsReturned ==
    [][ (FailingStep /\ last.input.errHandler = NoHandler)
            => /\ Err(r) = FnErr
               /\ HandlerCalls(last.calls) = 0
               /\ last'.op = "Map" => last'.calls = << >> /\ Err(r') = FnErr ]_vars

C16_Witness ==
    /\ steps = 2
    /\ installed = NoHandler
    /\ last.op = "Map"
    /\ IsError(last.input)
    /\ last.input.val = 2
    /\ Err(r) = ErrInvalid

\* C17: MapOrErr on an Ok Result whose mapFn returns (u, nil) invokes mapFn
\* once and returns an Ok Result with value u that carries the input's
\* handler; the handler is not invoked.
C17_MapOrErrOnSuccess ==
    (last.op = "MapOrErr" /\ ~IsError(last.input) /\ FnErr = NilErr)
        => /\ last.calls = << Call("mapFn", last.fn, last.input.val, NilErr,
                                   ApplyMapErrFn(last.fn, last.input.val).val, NilErr) >>
           /\ ~IsError(r)
           /\ Val(r).out = ApplyMapErrFn(last.fn, last.input.val).val
           /\ r.errHandler = last.input.errHandler

C17_Witness ==
    /\ last.op = "MapOrErr"
    /\ last.fn = "okInc"
    /\ ~IsError(last.input)
    /\ last.input.errHandler = "wrap"
    /\ r.val # last.input.val

\* C18: Return() does not panic and returns the stored value with the stored
\* error, which is Err(); for an Ok Result the error returned is nil.
C18_ReturnNeverFails ==
    last.op = "Return"
        => /\ ~last.out.panicked
           /\ last.out.val = last.input.val
           /\ last.out.err = Err(last.input)
           /\ ~IsError(last.input) => last.out.err = NilErr

C18_Witness ==
    /\ last.op = "Return"
    /\ IsError(last.input)
    /\ last.input.val # ZeroVal
    /\ last.input.errHandler # NoHandler

C22_InvocationOrder ==
    /\ lastInv = ninv
    /\ ninv < nchain => IsError(r)
    /\ last.op \in ChainOps
        => /\ FnCalls(last.calls) = IF IsError(last.input) THEN 0 ELSE 1
           /\ \A i \in DOMAIN last.calls :
                last.calls[i].kind \in {"mapFn", "checkFn"} <=> i = 1
           /\ last.calls # << >> => last.calls[1].fn = last.fn

C22_Witness ==
    /\ nchain = 4
    /\ ninv = 2
    /\ lastInv = 2
    /\ installed = "wrap"
    /\ last.op = "Map"
    /\ Err(r) = <<"wrapped", "fail">>

\* C24: Return() on the Result of WithReturn(v, err) returns v and err, for
\* a nil and for a non-nil err: the value passed beside an error is handed
\* back, not the zero value.
C24_ReturnRoundTrip ==
    [][ (last.op = "WithReturn" /\ last'.op = "Return")
            => /\ last'.out.val = last.out.val
               /\ last'.out.err = last.out.err ]_vars

C24_Witness ==
    /\ last.op = "Return"
    /\ steps = 0
    /\ last.out.err = ErrFail
    /\ last.out.val = 2
    /\ last.input.errHandler = NoHandler

\* C21: a call of Map, MapOrErr, Check, WithErrHandler or Fold leaves the
\* caller's r with the value, failure and handler it had before the call;
\* after a Check of r whose checkFn failed has returned, r is still Ok, and
\* a combinator then given r invokes its function.
C21_InputNotMutated ==
    /\ \A p \in Procs :
        (proc[p].pc = "returned" /\ proc[p].op \in Combinators)
            => mem[Caller] = proc[p].before
    /\ failed => ~IsError(mem[Caller])
    /\ \A p \in Procs :
        (proc[p].pc = "returned" /\ proc[p].afterFail)
            => /\ proc[p].op \in ChainOps => FnCalls(proc[p].output.calls) = 1
               /\ proc[p].op = "Fold" => proc[p].output.calls = Fold(proc[p].before)
               /\ proc[p].op = "Fold" => proc[p].output.calls[1].kind = "okFn"

C21_Witness ==
    /\ proc["p"].pc = "returned"
    /\ proc["p"].op = "Check"
    /\ proc["p"].fn = "fail"
    /\ IsError(proc["p"].output.res)
    /\ proc["q"].pc = "returned"
    /\ proc["q"].op = "Check"
    /\ proc["q"].afterFail
    /\ ~proc["q"].overlap
    /\ FnCalls(proc["q"].output.calls) = 1

\* C23: when goroutines apply Map, MapOrErr, Check, WithErrHandler, Fold and
\* the accessors to the same r at once, under every interleaving each call
\* returns what it returns on r alone and makes the same invocations, and r
\* keeps its value, failure and handler.
C23_SharingSafe ==
    /\ mem[Caller] = orig
    /\ \A p \in Procs :
        proc[p].pc = "returned"
            => proc[p].output = Apply(proc[p].op, proc[p].fn, orig)

C23_Witness ==
    /\ \A p \in Procs : proc[p].pc = "returned" /\ proc[p].overlap
    /\ proc["p"].op = "Check"
    /\ proc["p"].fn = "fail"
    /\ IsError(proc["p"].output.res)
    /\ proc["q"].op = "MapOrErr"
    /\ proc["q"].fn = "okInc"
    /\ ~IsError(proc["q"].output.res)
    /\ orig.errHandler = "wrap"

====
